---- MODULE Spec2Model ----
(***************************************************************************)
(* A model of the JobAppTracker record store                               *)
(* (jobtracker-core/src/job_store.rs), of the durable document             *)
(* "jobtrack.json" it rewrites after every mutation, and of the views the  *)
(* application derives from the list (jobtracker-core/src/job_app.rs):     *)
(* the summary counters, the row filter, the timeline chart, the           *)
(* resolution of a click on the chart, and the buttons and fields of the   *)
(* table.  Where lib.rs holds a second definition of an operation, it is   *)
(* modelled under the prefix lib_.                                         *)
(*                                                                         *)
(* Texts are sequences of one-character strings, so that lower-casing and  *)
(* parsing are computed character by character, as the code does.          *)
(* Option<T> is a sequence of length at most one: None is << >>, Some(x)   *)
(* is <<x>>.  A Vec index is 0-based, as in the code.                      *)
(***************************************************************************)
EXTENDS Integers, Sequences, FiniteSets, TLC

VARIABLES
    jobs,       \* JobStore::jobs, the in-memory list
    file,       \* the durable document jobtrack.json
    now,        \* the clock read by Utc::now()
    calls,      \* how many store operations have been called so far
    retired,    \* ids of the records removed so far by delete_job
    call,       \* the last call of a store operation: its inputs, the store
                \* before it, and what it returned
    summary_stats,      \* JobStore::summary_stats
    search_text,        \* JobApp::search_text
    selected_company,   \* JobApp::selected_company
    frame,      \* what the last drawing of the chart did, since the last
                \* call of a store operation
    last_refresh,       \* JobApp::last_refresh
    edit_companies      \* JobApp::edit_companies, the text of the company
                        \* field of a row, by the id of its record

vars == <<jobs, file, now, calls, retired, call,
          summary_stats, search_text, selected_company, frame,
          last_refresh, edit_companies>>

---------------------------------------------------------------------------
(* Bounds of the model. *)

\* How many store operations one run calls.
MaxCalls == 3

---------------------------------------------------------------------------
(* Texts. *)

Acme     == <<"A", "c", "m", "e">>
Globex   == <<"G", "l", "o", "b", "e", "x">>
Initech  == <<"I", "n", "i", "t", "e", "c", "h">>
Engineer == <<"E", "n", "g", "i", "n", "e", "e", "r">>
PM       == <<"P", "M">>
Remote   == <<"R", "e", "m", "o", "t", "e">>
NYC      == <<"N", "Y", "C">>
LinkedInText == <<"L", "i", "n", "k", "e", "d", "I", "n">>
IndeedText   == <<"i", "n", "d", "e", "e", "d">>
ReferralText == <<"R", "e", "f", "e", "r", "r", "a", "l">>

\* char::to_lowercase on the ASCII letters; every other character is kept.
LowerChar(c) ==
    CASE c = "A" -> "a" [] c = "B" -> "b" [] c = "C" -> "c" [] c = "D" -> "d"
      [] c = "E" -> "e" [] c = "F" -> "f" [] c = "G" -> "g" [] c = "H" -> "h"
      [] c = "I" -> "i" [] c = "J" -> "j" [] c = "K" -> "k" [] c = "L" -> "l"
      [] c = "M" -> "m" [] c = "N" -> "n" [] c = "O" -> "o" [] c = "P" -> "p"
      [] c = "Q" -> "q" [] c = "R" -> "r" [] c = "S" -> "s" [] c = "T" -> "t"
      [] c = "U" -> "u" [] c = "V" -> "v" [] c = "W" -> "w" [] c = "X" -> "x"
      [] c = "Y" -> "y" [] c = "Z" -> "z"
      [] OTHER -> c

\* str::to_lowercase
to_lowercase(s) == [i \in 1..Len(s) |-> LowerChar(s[i])]

---------------------------------------------------------------------------
(* The value types of a record. *)

\* enum JobStatus
JobStatus == {"Applied", "Interview", "Offer", "Rejected", "Ghosted"}

\* enum JobSource
JobSource == {"LinkedIn", "Monster", "Indeed", "Recruiter", "NotProvided",
              "Talent", "Glassdoor", "ZipRecruiter"}

\* A parse that fails on a text that is no source name.
from_str_strict(text) ==
    LET s == to_lowercase(text) IN
    CASE s = <<"l", "i", "n", "k", "e", "d", "i", "n">> -> "LinkedIn"
      [] s = <<"m", "o", "n", "s", "t", "e", "r">> -> "Monster"
      [] s = <<"i", "n", "d", "e", "e", "d">> -> "Indeed"
      [] s = <<"r", "e", "c", "r", "u", "i", "t", "e", "r">> -> "Recruiter"
      [] s = <<"t", "a", "l", "e", "n", "t", ".", "c", "o", "m">> -> "Talent"
      [] s = <<"g", "l", "a", "s", "s", "d", "o", "o", "r">> -> "Glassdoor"
      [] s = <<"z", "i", "p", "r", "e", "c", "r", "u", "i", "t", "e", "r">>
            -> "ZipRecruiter"
      [] OTHER -> "Err"

\* impl FromStr for JobSource: the text is lower-cased, then matched; the
\* result is always Ok.
from_str(text) ==
    LET s == to_lowercase(text) IN
    CASE s = <<"l", "i", "n", "k", "e", "d", "i", "n">> -> "LinkedIn"
      [] s = <<"m", "o", "n", "s", "t", "e", "r">> -> "Monster"
      [] s = <<"i", "n", "d", "e", "e", "d">> -> "Indeed"
      [] s = <<"r", "e", "c", "r", "u", "i", "t", "e", "r">> -> "Recruiter"
      [] s = <<"t", "a", "l", "e", "n", "t", ".", "c", "o", "m">> -> "Talent"
      [] s = <<"g", "l", "a", "s", "s", "d", "o", "o", "r">> -> "Glassdoor"
      [] s = <<"z", "i", "p", "r", "e", "c", "r", "u", "i", "t", "e", "r">>
            -> "ZipRecruiter"
      [] OTHER -> "NotProvided"

None == << >>
Some(x) == <<x>>

\* struct Job
Job(id, company, role, role_location, status, timestamp, source) ==
    [id |-> id, company |-> company, role |-> role,
     role_location |-> role_location, status |-> status,
     timestamp |-> timestamp, source |-> source]

---------------------------------------------------------------------------
(* The durable document.  It is missing, empty (no bytes), a serialized   *)
(* list, or a partial text: a proper, non-empty prefix of a serialized     *)
(* list, which is never a complete JSON array.                             *)

Missing    == [kind |-> "missing", jobs |-> << >>]
EmptyDoc   == [kind |-> "empty", jobs |-> << >>]
PartialDoc == [kind |-> "partial", jobs |-> << >>]
Doc(js)    == [kind |-> "doc", jobs |-> js]

\* How save_to_file can end.  The list is serialized, then fs::write
\* creates or truncates the file and writes the data.  A failure before the
\* truncation (the file cannot be opened) leaves the document untouched; a
\* failure of the write after it leaves the document empty or with a
\* partial text.
SaveOutcome == {"written", "failed_untouched", "failed_truncated_empty",
                "failed_truncated_partial"}

Failed(outcome) == outcome # "written"

\* A save that writes only the record the call touched last.
save_to_file_last_only(old, js, outcome) ==
    CASE outcome = "written" ->
            Doc(IF js = << >> THEN js ELSE <<js[Len(js)]>>)
      [] outcome = "failed_untouched" -> old
      [] outcome = "failed_truncated_empty" -> EmptyDoc
      [] outcome = "failed_truncated_partial" -> PartialDoc

\* JobStore::save_to_file: the whole list is serialized and written.
save_to_file(old, js, outcome) ==
    CASE outcome = "written" -> Doc(js)
      [] outcome = "failed_untouched" -> old
      [] outcome = "failed_truncated_empty" -> EmptyDoc
      [] outcome = "failed_truncated_partial" -> PartialDoc

---------------------------------------------------------------------------
(* Helpers on the list. *)

Ids(js) == {js[i].id : i \in 1..Len(js)}

\* self.jobs.iter().map(|a| a.id).max().unwrap_or(0)
MaxIdOr0(js) ==
    IF js = << >> THEN 0
    ELSE CHOOSE m \in Ids(js) : \A n \in Ids(js) : n <= m

\* Job::id is a u32.  The integers of the model end at 2^31 - 1, so the
\* ids of the model are one bit narrower than those of the code: IdMax
\* stands for u32::MAX, the id whose successor does not fit.
IdMax == 2147483647

\* An id taken from the largest one without the increment.
new_job_id_no_increment(js) == MaxIdOr0(js)

\* let new_job_id = ... + 1, in u32.  Without overflow checks the sum wraps;
\* with them add_job panics before it gets a value (see add_job).
new_job_id(js) == IF MaxIdOr0(js) = IdMax THEN 0 ELSE MaxIdOr0(js) + 1

\* self.jobs.iter_mut().find(|j| j.id == id): the position (from 1) of the
\* first record with this id, 0 when there is none.
find(js, id) ==
    IF \E i \in 1..Len(js) : js[i].id = id
    THEN CHOOSE i \in 1..Len(js) :
            js[i].id = id /\ \A k \in 1..(i - 1) : js[k].id # id
    ELSE 0

\* A removal that pops the last record whatever the index.
remove_last(js, index) == [i \in 1..(Len(js) - 1) |-> js[i]]

\* Vec::remove(index), index counted from 0 and in range.
remove(js, index) ==
    [i \in 1..(Len(js) - 1) |-> IF i <= index THEN js[i] ELSE js[i + 1]]

\* A record built with company and role in each other's place.
NewJobSwapped(id, company, role, new_role_location, new_source, t) ==
    Job(id, role, company, Some(new_role_location), "Applied", t,
        Some(from_str(new_source)))

\* The record add_job pushes.
NewJob(id, company, role, new_role_location, new_source, t) ==
    Job(id, company, role, Some(new_role_location), "Applied", t,
        Some(from_str(new_source)))

\* A status change that also stamps the record with a new time.
SetStatusStampsNow(job, new_status) ==
    [job EXCEPT !.status = new_status, !.timestamp = now + 1]

\* job.status = new_status, and the three like it.
SetStatus(job, new_status) == [job EXCEPT !.status = new_status]
SetSource(job, new_source) == [job EXCEPT !.source = Some(new_source)]
SetCompany(job, new_company) == [job EXCEPT !.company = new_company]
SetTimestamp(job, new_timestamp) == [job EXCEPT !.timestamp = new_timestamp]

---------------------------------------------------------------------------
(* The store operations.  Each is one call, run to completion.  A call    *)
(* that panics ends the process: no operation follows it.                 *)

\* No drawing of the chart since the last call.
NoFrame == [drawn |-> FALSE]

\* A call that puts the old list back when the write fails.
SavedOrRolledBack(op, arg, js, outcome) ==
    /\ calls < MaxCalls
    /\ call.ret # "Panic"
    /\ frame' = NoFrame
    /\ UNCHANGED <<summary_stats, search_text, selected_company,
                 last_refresh, edit_companies>>
    /\ jobs' = IF Failed(outcome) THEN jobs ELSE js
    /\ file' = save_to_file(file, js, outcome)
    /\ calls' = calls + 1
    /\ call' = [op |-> op, arg |-> arg, pre |-> jobs, prefile |-> file,
                saved |-> TRUE, outcome |-> outcome,
                ret |-> IF Failed(outcome) THEN "Err" ELSE "Ok",
                returned |-> IF Failed(outcome) THEN << >> ELSE js]

\* A call that changed the list to js and then called save_to_file.  The
\* `?` returns the error of a failed write; the list keeps the change.
Saved(op, arg, js, outcome) ==
    /\ calls < MaxCalls
    /\ call.ret # "Panic"
    /\ frame' = NoFrame
    /\ UNCHANGED <<summary_stats, search_text, selected_company,
                 last_refresh, edit_companies>>
    /\ jobs' = js
    /\ file' = save_to_file(file, js, outcome)
    /\ calls' = calls + 1
    /\ call' = [op |-> op, arg |-> arg, pre |-> jobs, prefile |-> file,
                saved |-> TRUE, outcome |-> outcome,
                ret |-> IF Failed(outcome) THEN "Err" ELSE "Ok",
                returned |-> IF Failed(outcome) THEN << >> ELSE js]

\* A call that found nothing to change and writes the list all the same.
NotSavedButWrites(op, arg) ==
    /\ calls < MaxCalls
    /\ call.ret # "Panic"
    /\ frame' = NoFrame
    /\ UNCHANGED <<summary_stats, search_text, selected_company,
                 last_refresh, edit_companies>>
    /\ jobs' = jobs
    /\ file' = Doc(jobs)
    /\ calls' = calls + 1
    /\ call' = [op |-> op, arg |-> arg, pre |-> jobs, prefile |-> file,
                saved |-> FALSE, outcome |-> "none",
                ret |-> "Ok", returned |-> jobs]

\* A call that found nothing to change: Ok(self.jobs.clone()), no write.
NotSaved(op, arg) ==
    /\ calls < MaxCalls
    /\ call.ret # "Panic"
    /\ frame' = NoFrame
    /\ UNCHANGED <<summary_stats, search_text, selected_company,
                 last_refresh, edit_companies>>
    /\ jobs' = jobs
    /\ file' = file
    /\ calls' = calls + 1
    /\ call' = [op |-> op, arg |-> arg, pre |-> jobs, prefile |-> file,
                saved |-> FALSE, outcome |-> "none",
                ret |-> "Ok", returned |-> jobs]

\* A call that panicked: the process ends with the store as it was.
Panicked(op, arg) ==
    /\ calls < MaxCalls
    /\ call.ret # "Panic"
    /\ jobs' = jobs
    /\ file' = file
    /\ calls' = calls + 1
    /\ call' = [op |-> op, arg |-> arg, pre |-> jobs, prefile |-> file,
                saved |-> FALSE, outcome |-> "none",
                ret |-> "Panic", returned |-> << >>]
    /\ frame' = NoFrame
    /\ UNCHANGED <<summary_stats, search_text, selected_company,
                 last_refresh, edit_companies>>

\* JobStore::add_job.  Utc::now() reads the clock, which has or has not
\* moved on since the last record was added.
\* The sum overflows when the largest id is u32::MAX: a build with overflow
\* checks panics there, a build without them goes on with the wrapped id.
add_job(company, role, new_role_location, new_source) ==
    \E t \in {now, now + 1}, outcome \in SaveOutcome,
       overflow_checks \in IF MaxIdOr0(jobs) < IdMax
                           THEN {FALSE} ELSE BOOLEAN :
        IF overflow_checks
        THEN /\ Panicked("add_job",
                         <<company, role, new_role_location, new_source>>)
             /\ UNCHANGED <<now, retired>>
        ELSE /\ now' = t
             /\ Saved("add_job",
                      <<company, role, new_role_location, new_source>>,
                      Append(jobs, NewJob(new_job_id(jobs), company, role,
                                          new_role_location, new_source, t)),
                      outcome)
             /\ UNCHANGED retired

\* A list_jobs that reads the list back from the document.
list_jobs_from_document ==
    /\ calls < MaxCalls
    /\ call.ret # "Panic"
    /\ frame' = NoFrame
    /\ UNCHANGED <<summary_stats, search_text, selected_company,
                 last_refresh, edit_companies>>
    /\ jobs' = file.jobs
    /\ file' = file
    /\ calls' = calls + 1
    /\ call' = [op |-> "list_jobs", arg |-> << >>, pre |-> jobs,
                prefile |-> file, saved |-> FALSE, outcome |-> "none",
                ret |-> "Ok", returned |-> file.jobs]
    /\ UNCHANGED <<now, retired>>

\* JobStore::list_jobs
list_jobs ==
    /\ NotSaved("list_jobs", << >>)
    /\ UNCHANGED <<now, retired>>

\* A delete_job that saves whether or not it removed a record.
delete_job_always_saves(index) ==
    /\ \E outcome \in SaveOutcome :
          Saved("delete_job", <<index>>,
                IF index < Len(jobs) THEN remove(jobs, index) ELSE jobs,
                outcome)
    /\ retired' = IF index < Len(jobs)
                  THEN retired \cup {jobs[index + 1].id} ELSE retired
    /\ UNCHANGED now

\* JobStore::delete_job
delete_job(index) ==
    /\ IF index < Len(jobs)
       THEN /\ \E outcome \in SaveOutcome :
                  Saved("delete_job", <<index>>, remove(jobs, index), outcome)
            /\ retired' = retired \cup {jobs[index + 1].id}
       ELSE /\ NotSaved("delete_job", <<index>>)
            /\ retired' = retired
    /\ UNCHANGED now

\* JobStore::update_status
update_status(id, new_status) ==
    /\ IF find(jobs, id) # 0
       THEN \E outcome \in SaveOutcome :
               Saved("update_status", <<id, new_status>>,
                     [jobs EXCEPT ![find(jobs, id)] = SetStatus(@, new_status)],
                     outcome)
       ELSE NotSaved("update_status", <<id, new_status>>)
    /\ UNCHANGED <<now, retired>>

\* JobStore::update_source
update_source(id, new_source) ==
    /\ IF find(jobs, id) # 0
       THEN \E outcome \in SaveOutcome :
               Saved("update_source", <<id, new_source>>,
                     [jobs EXCEPT ![find(jobs, id)] = SetSource(@, new_source)],
                     outcome)
       ELSE NotSaved("update_source", <<id, new_source>>)
    /\ UNCHANGED <<now, retired>>

\* An update_company that saves whether or not it found the record.
update_company_always_saves(id, new_company) ==
    /\ \E outcome \in SaveOutcome :
          Saved("update_company", <<id, new_company>>,
                IF find(jobs, id) # 0
                THEN [jobs EXCEPT ![find(jobs, id)] =
                         SetCompany(@, new_company)]
                ELSE jobs,
                outcome)
    /\ UNCHANGED <<now, retired>>

\* JobStore::update_company
update_company(id, new_company) ==
    /\ IF find(jobs, id) # 0
       THEN \E outcome \in SaveOutcome :
               Saved("update_company", <<id, new_company>>,
                     [jobs EXCEPT ![find(jobs, id)] = SetCompany(@, new_company)],
                     outcome)
       ELSE NotSaved("update_company", <<id, new_company>>)
    /\ UNCHANGED <<now, retired>>

\* JobStore::update_timestamp
update_timestamp(id, new_timestamp) ==
    /\ IF find(jobs, id) # 0
       THEN \E outcome \in SaveOutcome :
               Saved("update_timestamp", <<id, new_timestamp>>,
                     [jobs EXCEPT ![find(jobs, id)] =
                         SetTimestamp(@, new_timestamp)],
                     outcome)
       ELSE NotSaved("update_timestamp", <<id, new_timestamp>>)
    /\ UNCHANGED <<now, retired>>

---------------------------------------------------------------------------
(* The inputs the operations are explored on. *)

\* (company, role, location, source text) of an add_job call: the first
\* call of the end-to-end example, and one whose source text is no source
\* name.
AddInputs == {<<Acme, Engineer, Remote, LinkedInText>>,
              <<Globex, PM, NYC, ReferralText>>}
\* The ids in the list and one id no record has.
IdInputs == Ids(jobs) \cup {0}
\* The positions of the list and the first one past its end.
IndexInputs == 0..Len(jobs)
StatusInputs == {"Interview", "Rejected"}
SourceInputs == {"Recruiter"}
CompanyInputs == {Initech}
\* An instant not after now and one after it.
Instants == {0, now + 1}

\* SummaryCounts::default()
SummaryCountsDefault ==
    [total |-> 0, rejected |-> 0, ghosted |-> 0, applied |-> 0,
     interviews |-> 0, offers |-> 0]

\* JobApp::default(), before any call.
NoCall == [op |-> "default", arg |-> << >>, pre |-> << >>,
           prefile |-> Missing, saved |-> FALSE, outcome |-> "none",
           ret |-> "Ok", returned |-> << >>]

\* JobStore::default(): an empty list, and no document yet.
Init ==
    /\ jobs = << >>
    /\ file = Missing
    /\ now = 0
    /\ calls = 0
    /\ retired = {}
    /\ call = NoCall
    /\ summary_stats = SummaryCountsDefault
    /\ search_text = << >>
    /\ selected_company = None
    /\ frame = NoFrame
    /\ last_refresh = now
    /\ edit_companies = << >>

Next ==
    \/ \E in \in AddInputs : add_job(in[1], in[2], in[3], in[4])
    \/ list_jobs
    \/ \E index \in IndexInputs : delete_job(index)
    \/ \E id \in IdInputs, s \in StatusInputs : update_status(id, s)
    \/ \E id \in IdInputs, s \in SourceInputs : update_source(id, s)
    \/ \E id \in IdInputs, c \in CompanyInputs : update_company(id, c)
    \/ \E id \in IdInputs, t \in Instants : update_timestamp(id, t)

Spec == Init /\ [][Next]_vars

---------------------------------------------------------------------------
(* The summary counters.                                                  *)

\* One turn of the loop of calculate_summary_stats: total += 1 and the
\* counter of the record's status += 1.
Counted(stats, job) ==
    LET t == [stats EXCEPT !.total = @ + 1] IN
    CASE job.status = "Rejected" -> [t EXCEPT !.rejected = @ + 1]
      [] job.status = "Ghosted" -> [t EXCEPT !.ghosted = @ + 1]
      [] job.status = "Applied" -> [t EXCEPT !.applied = @ + 1]
      [] job.status = "Interview" -> [t EXCEPT !.interviews = @ + 1]
      [] job.status = "Offer" -> [t EXCEPT !.offers = @ + 1]

\* for job in &self.jobs { ... }, from the counters given.
RECURSIVE CountedAll(_, _)
CountedAll(stats, js) ==
    IF js = << >> THEN stats
    ELSE CountedAll(Counted(stats, Head(js)), Tail(js))

\* Counters that go on from what they held.
calculate_summary_stats_no_reset(js) == CountedAll(summary_stats, js)

\* JobStore::calculate_summary_stats: the counters after the call.
calculate_summary_stats(js) == CountedAll(SummaryCountsDefault, js)

\* An f32 shown with two decimals: not a number, or a number of hundredths.
NaN == [nan |-> TRUE, hundredths |-> 0]
Number(h) == [nan |-> FALSE, hundredths |-> h]

\* (part as f32 / total as f32) * 100.0 under {:.2}.  0.0 / 0.0 is NaN; a
\* part is never above its total, and the hundredths are rounded to the
\* nearest.
Percent(part, total) ==
    IF total = 0 THEN NaN
    ELSE Number((part * 20000 + total) \div (2 * total))

\* The rates in the label above the chart.
TimelineLabel(stats) ==
    [rejection |-> Percent(stats.rejected, stats.total),
     interview |-> Percent(stats.interviews, stats.total)]

\* impl Display for SummaryCounts: the values it writes.
fmt(stats) ==
    [total |-> stats.total, applied |-> stats.applied,
     rejected |-> stats.rejected, ghosted |-> stats.ghosted,
     interviews |-> stats.interviews,
     rejection_rate |-> Percent(stats.rejected, stats.total),
     interview_rate |-> Percent(stats.interviews, stats.total)]

---------------------------------------------------------------------------
(* The timeline chart.  An instant is a number of ticks; a calendar day   *)
(* is TicksPerDay ticks.  A coordinate of the plot is a number of halves: *)
(* 3 is 1.5.                                                               *)

TicksPerDay == 2

\* DateTime::date_naive
date_naive(t) == t \div TicksPerDay

Min(S) == CHOOSE m \in S : \A n \in S : m <= n

\* An earliest date taken from the first record of the list.
earliest_date_of_first(js, today) ==
    IF js = << >> THEN date_naive(today)
    ELSE date_naive(js[1].timestamp)

\* jobs.iter().map(|job| job.timestamp.date_naive()).min()
\*     .unwrap_or_else(|| today.date_naive())
earliest_date(js, today) ==
    IF js = << >> THEN date_naive(today)
    ELSE Min({date_naive(js[i].timestamp) : i \in 1..Len(js)})

\* A loop that stops before today.
RECURSIVE DatesBefore(_, _)
DatesBefore(d, last) ==
    IF d < last THEN <<d>> \o DatesBefore(d + 1, last) ELSE << >>

\* while d <= today.date_naive() { dates.push(d); d = d.succ_opt() }
RECURSIVE DatesFrom(_, _)
DatesFrom(d, last) ==
    IF d <= last THEN <<d>> \o DatesFrom(d + 1, last) ELSE << >>

all_dates(js, today) == DatesFrom(earliest_date(js, today), date_naive(today))

\* An assignment that puts a record of a day without a bucket nowhere, and
\* a record of a day with one at the front of it.
RECURSIVE AssignedFront(_, _)
AssignedFront(map, js) ==
    IF js = << >> THEN map
    ELSE LET job == Head(js)
             job_date == date_naive(job.timestamp)
         IN  AssignedFront(
                 IF job_date \in DOMAIN map
                 THEN [map EXCEPT ![job_date] = <<job>> \o @] ELSE map,
                 Tail(js))

\* for job in &self.store.jobs: a record is pushed to the bucket of its day
\* when the map has that day, and skipped otherwise.
RECURSIVE Assigned(_, _)
Assigned(map, js) ==
    IF js = << >> THEN map
    ELSE LET job == Head(js)
             job_date == date_naive(job.timestamp)
         IN  Assigned(
                 IF job_date \in DOMAIN map
                 THEN [map EXCEPT ![job_date] = Append(@, job)] ELSE map,
                 Tail(js))

\* The map with an empty bucket for every day of all_dates, then filled.
date_to_jobs(js, today) ==
    LET dates == all_dates(js, today) IN
    Assigned([d \in {dates[i] : i \in 1..Len(dates)} |-> << >>], js)

\* date_to_jobs.keys() sorted.
RECURSIVE Sorted(_)
Sorted(S) ==
    IF S = {} THEN << >> ELSE <<Min(S)>> \o Sorted(S \ {Min(S)})

sorted_dates(js, today) == Sorted(DOMAIN date_to_jobs(js, today))

\* The bars drawn: Bar::new(x_position, 1).base_offset(k) for the record at
\* place k (from 0) of the bucket of the day at place date_idx (from 0).
Bars(js, today) ==
    LET dates == sorted_dates(js, today)
        map == date_to_jobs(js, today)
    IN  UNION {{[date_idx |-> i - 1, k |-> k - 1, x |-> 2 * (i - 1),
                 base |-> 2 * (k - 1), top |-> 2 * k,
                 job |-> map[dates[i]][k]] : k \in 1..Len(map[dates[i]])} :
               i \in 1..Len(dates)}

\* f64::round of a coordinate: the nearest whole number, a half going away
\* from zero.
round(c) ==
    IF c % 2 = 0 THEN c \div 2
    ELSE IF c > 0 THEN (c + 1) \div 2 ELSE (c - 1) \div 2

\* A stack position taken by rounding.
floor_to_nearest(c) == round(c)

\* f64::floor of a coordinate.
floor(c) == c \div 2

\* f64 as usize: the cast saturates, so a negative number becomes 0.
as_usize(v) == IF v < 0 THEN 0 ELSE v

\* slice::get, with the index counted from 0.
get(s, idx) == IF idx < Len(s) THEN Some(s[idx + 1]) ELSE None

\* The click handling: the record the pointer position resolves to, if any.
resolve(js, today, pointer_pos) ==
    LET dates == sorted_dates(js, today)
        x_idx == as_usize(round(pointer_pos[1]))
        date == get(dates, x_idx)
    IN  IF date = None THEN None
        ELSE get(date_to_jobs(js, today)[date[1]],
                 as_usize(floor(pointer_pos[2])))

\* JobApp::add_bar_chart_stats, one frame of the chart.  pointer is None
\* when the plot was not clicked in the frame, and the pointer position of
\* the click otherwise.  The counters are computed anew, the label is
\* written, the bars are drawn (drawing a bar while the search text is empty
\* clears the selection), and then the click is handled.
add_bar_chart_stats(pointer) ==
    LET stats == calculate_summary_stats(jobs)
        bars == Bars(jobs, now)
        selected == IF bars # {} /\ search_text = << >>
                    THEN None ELSE selected_company
        hit == IF pointer = None THEN None ELSE resolve(jobs, now, pointer[1])
    IN  /\ summary_stats' = stats
        /\ search_text' = IF hit = None THEN search_text ELSE hit[1].company
        /\ selected_company' =
               IF hit = None THEN selected ELSE Some(hit[1].company)
        /\ frame' = [drawn |-> TRUE, today |-> now,
                     stats_before |-> summary_stats,
                     label |-> TimelineLabel(stats),
                     all_dates |-> all_dates(jobs, now),
                     sorted_dates |-> sorted_dates(jobs, now),
                     date_to_jobs |-> date_to_jobs(jobs, now),
                     bars |-> bars, pointer |-> pointer, hit |-> hit,
                     search_before |-> search_text,
                     selected_before |-> selected]
        /\ UNCHANGED <<jobs, file, now, calls, retired, call, last_refresh,
                       edit_companies>>

\* The day the chart specification starts on, counted from the day of
\* instant 0.
StartDay == 5

\* An instant of the day of instant 0, and one of the day after today.
ChartInstants == {0, now + TicksPerDay}

\* The pointer positions of a click: the centre of every bar, the top edge
\* of every bar, and positions off the bars: left of the first day (x = -1
\* and x = -1/2), below the axis (y = -1/2), between two days (x = 1/2), and
\* right of the last day.
ClickInputs ==
    {<<b.x, b.base + 1>> : b \in Bars(jobs, now)}
    \cup {<<b.x, b.top>> : b \in Bars(jobs, now)}
    \cup {<<-2, 1>>, <<-1, 1>>, <<0, -1>>, <<1, 1>>,
          <<2 * Len(sorted_dates(jobs, now)), 1>>}

PointerInputs == {None} \cup {Some(p) : p \in ClickInputs}

\* The application some days after instant 0, with an empty store.
InitChart ==
    /\ jobs = << >>
    /\ file = Missing
    /\ now = StartDay * TicksPerDay
    /\ calls = 0
    /\ retired = {}
    /\ call = NoCall
    /\ summary_stats = SummaryCountsDefault
    /\ search_text = << >>
    /\ selected_company = None
    /\ frame = NoFrame
    /\ last_refresh = now
    /\ edit_companies = << >>

\* The application unwraps the result of every store call, so it draws
\* frames only while every write has succeeded.  The frames of this
\* specification are frames without a click.
NextChart ==
    \/ \E in \in AddInputs :
          add_job(in[1], in[2], in[3], in[4]) /\ call'.outcome = "written"
    \/ \E id \in Ids(jobs), s \in StatusInputs :
          update_status(id, s) /\ call'.outcome = "written"
    \/ \E id \in Ids(jobs), t \in ChartInstants :
          update_timestamp(id, t) /\ call'.outcome = "written"
    \/ add_bar_chart_stats(None)

SpecChart == InitChart /\ [][NextChart]_vars

\* The same application with frames in which the plot is clicked or not,
\* all within one instant of the clock.
NextClick ==
    \/ \E in \in AddInputs :
          /\ add_job(in[1], in[2], in[3], in[4])
          /\ call'.outcome = "written"
          /\ now' = now
    \/ \E id \in Ids(jobs) :
          update_timestamp(id, 0) /\ call'.outcome = "written"
    \/ \E pointer \in PointerInputs : add_bar_chart_stats(pointer)

SpecClick == InitChart /\ [][NextClick]_vars

---------------------------------------------------------------------------
(* Properties of the store.  They are stated on `call`, which holds the   *)
(* store before the last call (pre, prefile) next to the store after it.  *)

UpdateOps == {"update_status", "update_source", "update_company",
              "update_timestamp"}

\* C1: add_job appends exactly one record at the end of the list; its id is
\* the largest id of the list before the call (0 for the empty list) plus
\* one, its status is Applied, its company, role and location are the given
\* ones; the records already in the list keep their position and fields.
C1_AddJobAppendsOne ==
    call.op = "add_job" =>
        /\ Len(jobs) = Len(call.pre) + 1
        /\ \A i \in 1..Len(call.pre) : jobs[i] = call.pre[i]
        /\ LET new == jobs[Len(jobs)] IN
           /\ call.pre = << >> => new.id = 1
           /\ call.pre # << >> =>
                 /\ \E i \in 1..Len(call.pre) : new.id = call.pre[i].id + 1
                 /\ \A i \in 1..Len(call.pre) : new.id > call.pre[i].id
           /\ new.status = "Applied"
           /\ new.company = call.arg[1]
           /\ new.role = call.arg[2]
           /\ new.role_location = Some(call.arg[3])

\* add_job has been called on a list of two records.
C1_Witness == call.op = "add_job" /\ Len(call.pre) = 2

\* C2: in every state reached from the empty store by add_job, delete_job
\* and the update operations, the ids of the list are pairwise distinct and
\* strictly increasing in list order.
C2_IdsStrictlyIncreasing ==
    \A i, k \in 1..Len(jobs) : i < k => jobs[i].id < jobs[k].id

\* A third record has been added to a list of two.
C2_Witness == Len(jobs) = 3 /\ call.op = "add_job"

\* C3: an id is never reused after deletion: no record of the list has the
\* id of a record that delete_job removed earlier.
C3_IdNeverReused == \A i \in 1..Len(jobs) : jobs[i].id \notin retired

\* C4: delete_job(index) with index < length removes exactly the record at
\* that position: the result is the old list without that element, the
\* other records keep their order, ids and fields, and the list is then
\* saved (the document is the new list when the write succeeds).
C4_DeleteRemovesAtIndex ==
    (call.op = "delete_job" /\ call.arg[1] < Len(call.pre)) =>
        /\ Len(jobs) = Len(call.pre) - 1
        /\ \A i \in 1..Len(jobs) :
              jobs[i] = IF i <= call.arg[1] THEN call.pre[i]
                        ELSE call.pre[i + 1]
        /\ call.saved
        /\ call.ret = "Ok" => file = Doc(jobs) /\ call.returned = jobs

\* The first of two records has been deleted.
C4_Witness ==
    /\ call.op = "delete_job"
    /\ call.arg[1] = 0
    /\ Len(call.pre) = 2
    /\ call.ret = "Ok"

\* C5: delete_job(index) with index >= length returns success, leaves the
\* list unchanged and does not write the document.
C5_DeleteOutOfRangeIsNoOp ==
    (call.op = "delete_job" /\ call.arg[1] >= Len(call.pre)) =>
        /\ call.ret = "Ok"
        /\ call.returned = call.pre
        /\ jobs = call.pre
        /\ ~call.saved
        /\ file = call.prefile

\* delete_job has been called past the end of a list that has a record.
C5_Witness ==
    /\ call.op = "delete_job"
    /\ call.arg[1] >= Len(call.pre)
    /\ Len(call.pre) >= 1

\* C6: an update operation called with an id of the list changes only the
\* named field of the record with that id: its id, role, location and
\* other fields, every other record, and the length and order of the list
\* are unchanged.
C6_UpdateChangesOnlyNamedField ==
    (call.op \in UpdateOps /\ call.arg[1] \in Ids(call.pre)) =>
        /\ Len(jobs) = Len(call.pre)
        /\ \A i \in 1..Len(call.pre) :
              LET a == call.pre[i]
                  b == jobs[i]
              IN  /\ b.id = a.id
                  /\ b.role = a.role
                  /\ b.role_location = a.role_location
                  /\ a.id # call.arg[1] => b = a
                  /\ call.op # "update_status" => b.status = a.status
                  /\ call.op # "update_source" => b.source = a.source
                  /\ call.op # "update_company" => b.company = a.company
                  /\ call.op # "update_timestamp" =>
                        b.timestamp = a.timestamp
                  /\ (a.id = call.arg[1] /\ call.op = "update_status") =>
                        b.status = call.arg[2]
                  /\ (a.id = call.arg[1] /\ call.op = "update_source") =>
                        b.source = Some(call.arg[2])
                  /\ (a.id = call.arg[1] /\ call.op = "update_company") =>
                        b.company = call.arg[2]
                  /\ (a.id = call.arg[1] /\ call.op = "update_timestamp") =>
                        b.timestamp = call.arg[2]

\* The status of the second of two records has been changed, and that
\* record was not added at instant 0.
C6_Witness ==
    /\ call.op = "update_status"
    /\ Len(call.pre) = 2
    /\ call.arg[1] = call.pre[2].id
    /\ call.pre[2].timestamp # 0
    /\ jobs # call.pre

\* C7: an update operation called with an id that no record has returns
\* success, leaves the list unchanged and does not write the document.
C7_UpdateUnknownIdIsNoOp ==
    (call.op \in UpdateOps /\ call.arg[1] \notin Ids(call.pre)) =>
        /\ call.ret = "Ok"
        /\ call.returned = call.pre
        /\ jobs = call.pre
        /\ ~call.saved
        /\ file = call.prefile

\* update_company has been called with an unknown id on a list that has a
\* record.
C7_Witness ==
    /\ call.op = "update_company"
    /\ call.arg[1] \notin Ids(call.pre)
    /\ Len(call.pre) >= 1

\* C8: every mutator call that changes the list rewrites the document with
\* the entire list before it returns: when the write succeeds, the document
\* is the complete list as it is after the call.
C8_FullRewrite ==
    /\ (call.op \in UpdateOps \cup {"add_job", "delete_job"}
          /\ jobs # call.pre) => call.saved
    /\ (call.saved /\ call.ret = "Ok") => file = Doc(jobs)

\* A field of one of two records has been changed and the write succeeded.
C8_Witness ==
    /\ call.op = "update_source"
    /\ Len(jobs) = 2
    /\ jobs # call.pre
    /\ call.ret = "Ok"

\* The list after a call holds the change the call was asked for.
KeepsMutation ==
    CASE call.op = "add_job" ->
            /\ Len(jobs) = Len(call.pre) + 1
            /\ jobs[Len(jobs)].company = call.arg[1]
      [] call.op = "delete_job" -> Len(jobs) = Len(call.pre) - 1
      [] call.op = "update_status" ->
            \E i \in 1..Len(jobs) :
                jobs[i].id = call.arg[1] /\ jobs[i].status = call.arg[2]
      [] call.op = "update_source" ->
            \E i \in 1..Len(jobs) :
                jobs[i].id = call.arg[1] /\ jobs[i].source = Some(call.arg[2])
      [] call.op = "update_company" ->
            \E i \in 1..Len(jobs) :
                jobs[i].id = call.arg[1] /\ jobs[i].company = call.arg[2]
      [] call.op = "update_timestamp" ->
            \E i \in 1..Len(jobs) :
                jobs[i].id = call.arg[1] /\ jobs[i].timestamp = call.arg[2]
      [] OTHER -> FALSE

\* C9 as stated: when the write fails, the call returns an error, the list
\* keeps the mutation, and the document keeps its content from before the
\* call.
C9_FailedWriteKeepsDocument ==
    (call.saved /\ call.outcome # "written") =>
        /\ call.ret = "Err"
        /\ KeepsMutation
        /\ file = call.prefile

\* C9, amended: when the write fails, the call returns an error and the
\* list keeps the mutation; the document keeps its content from before the
\* call when the failure precedes the truncation of the file, and is left
\* empty or with a partial text when the write failed after it.
C9_FailedWriteKeepsMutation ==
    (call.saved /\ call.outcome # "written") =>
        /\ call.ret = "Err"
        /\ KeepsMutation
        /\ call.outcome = "failed_untouched" => file = call.prefile
        /\ call.outcome # "failed_untouched" => file \in {EmptyDoc, PartialDoc}

\* A write over a document that held a list has failed midway, after a
\* change of the list.
C9_Witness ==
    /\ call.ret = "Err"
    /\ call.prefile.kind = "doc"
    /\ call.prefile.jobs # << >>
    /\ file = PartialDoc
    /\ jobs # call.pre

\* C10: list_jobs returns exactly the in-memory list and changes neither
\* the list nor the document, also when the two differ.
C10_ListJobsReturnsList ==
    call.op = "list_jobs" =>
        /\ call.ret = "Ok"
        /\ call.returned = call.pre
        /\ jobs = call.pre
        /\ file = call.prefile
        /\ ~call.saved

\* list_jobs has been called while the document held another list than the
\* store.
C10_Witness ==
    /\ call.op = "list_jobs"
    /\ call.prefile.kind = "doc"
    /\ call.prefile.jobs # call.pre
    /\ call.pre # << >>

---------------------------------------------------------------------------
(* Properties of the summary counters and of the rates.                   *)

\* The number of records of a list with a status.
Count(js, status) == Cardinality({i \in 1..Len(js) : js[i].status = status})

\* C11: right after calculate_summary_stats, whatever the counters held
\* before, total is the number of records, every status counter is the
\* number of records with that status, the five status counters sum to
\* total, and on the empty list all six are 0; a second call on the same
\* list gives the same counters again.
C11_SummaryCountsMatchList ==
    frame.drawn =>
        /\ summary_stats.total = Len(jobs)
        /\ summary_stats.applied = Count(jobs, "Applied")
        /\ summary_stats.interviews = Count(jobs, "Interview")
        /\ summary_stats.offers = Count(jobs, "Offer")
        /\ summary_stats.rejected = Count(jobs, "Rejected")
        /\ summary_stats.ghosted = Count(jobs, "Ghosted")
        /\ summary_stats.applied + summary_stats.interviews
               + summary_stats.offers + summary_stats.rejected
               + summary_stats.ghosted = summary_stats.total
        /\ (jobs = << >> => summary_stats = SummaryCountsDefault)
        /\ (frame.stats_before.total = Len(jobs) =>
                summary_stats.total = frame.stats_before.total)

\* The counters are computed a second time on a list of two records, one of
\* them rejected, and they held these very counts before.
C11_Witness ==
    /\ frame.drawn
    /\ Len(jobs) = 2
    /\ summary_stats.rejected = 1
    /\ summary_stats.applied = 1
    /\ frame.stats_before = summary_stats

\* C12: with total = 0 the rejection and interview rates are 0%, in the
\* label of the timeline and in the Display of SummaryCounts.
C12_RatesGuardedAtZeroTotal ==
    (frame.drawn /\ summary_stats.total = 0) =>
        /\ frame.label.rejection = Number(0)
        /\ frame.label.interview = Number(0)
        /\ fmt(summary_stats).rejection_rate = Number(0)
        /\ fmt(summary_stats).interview_rate = Number(0)

---------------------------------------------------------------------------
(* Properties of the day sequence and of the buckets.                     *)

\* The days of the records of the list.
RecordDays == {date_naive(jobs[n].timestamp) : n \in 1..Len(jobs)}

\* The entries of the drawn day sequence whose bucket is empty.
EmptyEntries ==
    {n \in 1..Len(frame.sorted_dates) :
        frame.date_to_jobs[frame.sorted_dates[n]] = << >>}

\* C14: when no record's day is after today, the day sequence is the run of
\* consecutive days from the oldest record's day through today, in
\* increasing order, today - earliest + 1 of them, and a day without records
\* has an empty bucket; on the empty list the sequence is today alone; with
\* records on day D0 and on D0 + 5 = today only, it has 6 entries and 4 of
\* them are empty.
C14_DaySequenceIsDense ==
    frame.drawn =>
        LET today == date_naive(frame.today)
            dates == frame.sorted_dates
        IN  /\ frame.all_dates = dates
            /\ DOMAIN frame.date_to_jobs = {dates[n] : n \in 1..Len(dates)}
            /\ (jobs = << >> => dates = <<today>>)
            /\ \A earliest \in RecordDays :
                  ((\A d \in RecordDays : earliest <= d) /\ earliest <= today)
                  => /\ Len(dates) = today - earliest + 1
                     /\ \A n \in 1..Len(dates) : dates[n] = earliest + n - 1
                     /\ \A n \in 1..Len(dates) :
                           dates[n] \notin RecordDays => n \in EmptyEntries
            /\ (RecordDays = {today - 5, today}
                  => Len(dates) = 6 /\ Cardinality(EmptyEntries) = 4)

\* A frame on a list with records on day 0 and on day 5 = today only.
C14_Witness ==
    /\ frame.drawn
    /\ date_naive(frame.today) = 5
    /\ RecordDays = {0, 5}
    /\ Len(frame.sorted_dates) = 6
    /\ Cardinality(EmptyEntries) = 4

\* The sum of the sizes of the buckets of the first n entries.
RECURSIVE BucketSizes(_)
BucketSizes(n) ==
    IF n = 0 THEN 0
    ELSE Len(frame.date_to_jobs[frame.sorted_dates[n]]) + BucketSizes(n - 1)

\* C15: after add_job and update_timestamp calls with any instants, every
\* record of the list is in exactly one bucket, the bucket of the day of its
\* timestamp, and the bucket sizes sum to the number of records.
C15_EveryRecordInOneBucket ==
    frame.drawn =>
        /\ \A n \in 1..Len(jobs) :
              /\ date_naive(jobs[n].timestamp) \in DOMAIN frame.date_to_jobs
              /\ \A d \in DOMAIN frame.date_to_jobs :
                    (\E k \in 1..Len(frame.date_to_jobs[d]) :
                        frame.date_to_jobs[d][k] = jobs[n])
                    <=> d = date_naive(jobs[n].timestamp)
        /\ BucketSizes(Len(frame.sorted_dates)) = Len(jobs)

\* C16: the bucket of every day d of the day sequence is the records of the
\* list whose day is d, in the order of the list; and the bars are one per
\* bucket place: the record at place k of the day at place i is drawn at
\* x = i from k up to k + 1.
C16_BucketsKeepListOrder ==
    frame.drawn =>
        /\ \A n \in 1..Len(frame.sorted_dates) :
              LET d == frame.sorted_dates[n] IN
              /\ frame.date_to_jobs[d] =
                     SelectSeq(jobs, LAMBDA j : date_naive(j.timestamp) = d)
              /\ \A k \in 1..Len(frame.date_to_jobs[d]) :
                    \E b \in frame.bars :
                        /\ b.date_idx = n - 1
                        /\ b.k = k - 1
                        /\ b.job = frame.date_to_jobs[d][k]
        /\ \A b \in frame.bars :
              /\ b.date_idx < Len(frame.sorted_dates)
              /\ b.k < Len(frame.date_to_jobs[frame.sorted_dates[b.date_idx + 1]])
              /\ b.job =
                     frame.date_to_jobs[frame.sorted_dates[b.date_idx + 1]][b.k + 1]
              /\ b.x = 2 * b.date_idx
              /\ b.base = 2 * b.k
              /\ b.top = 2 * (b.k + 1)

\* A frame with a stack of two records on one day, the later one of the
\* list above the earlier one, and the list not in the order of the days.
C16_Witness ==
    /\ frame.drawn
    /\ \E b1, b2 \in frame.bars :
          /\ b1.date_idx = b2.date_idx
          /\ b1.k = 0 /\ b2.k = 1
          /\ b1.job.id < b2.job.id
    /\ \E m, n \in 1..Len(jobs) :
          m < n /\ jobs[n].timestamp < jobs[m].timestamp

---------------------------------------------------------------------------
(* Properties of the click handling.                                      *)

\* C17: a click at the centre of the bar of a record R, x = i and
\* y = k + 1/2 for the record at place k of the day at place i, resolves to
\* R, and the search text and the selection become the company of R.
C17_ClickAtCentreResolvesToRecord ==
    (frame.drawn /\ frame.pointer # None) =>
        \A b \in frame.bars :
            frame.pointer[1] = <<2 * b.date_idx, 2 * b.k + 1>>
            => /\ frame.hit = Some(b.job)
               /\ search_text = b.job.company
               /\ selected_company = Some(b.job.company)

\* The centre of the upper bar of a stack of two is clicked while the search
\* text holds the company of the lower one.
C17_Witness ==
    /\ frame.drawn
    /\ frame.pointer # None
    /\ \E b \in frame.bars :
          /\ b.k = 1
          /\ frame.pointer[1] = <<b.x, b.base + 1>>
          /\ frame.hit = Some(b.job)
          /\ frame.search_before # << >>
          /\ frame.search_before # b.job.company
          /\ search_text = b.job.company

\* C18: a click resolves to no record and leaves the search text and the
\* selection as they were when round(x) is no index of the day sequence, or
\* floor(y) is negative or not below the size of the bucket of that day; so
\* a click with round(x) < 0 or floor(y) < 0 resolves to no record.
C18_ClickOffTheBarsResolvesToNone ==
    (frame.drawn /\ frame.pointer # None) =>
        LET day_index == round(frame.pointer[1][1])
            stack_index == floor(frame.pointer[1][2])
            dates == frame.sorted_dates
        IN  (\/ day_index < 0
             \/ day_index >= Len(dates)
             \/ stack_index < 0
             \/ stack_index >= Len(frame.date_to_jobs[dates[day_index + 1]]))
            => /\ frame.hit = None
               /\ search_text = frame.search_before
               /\ selected_company = frame.selected_before

---------------------------------------------------------------------------
(* The table of records and its search box.                               *)

\* impl Display for JobStatus: the text of a status.
to_string(status) ==
    CASE status = "Applied" -> <<"A", "p", "p", "l", "i", "e", "d">>
      [] status = "Interview" ->
             <<"I", "n", "t", "e", "r", "v", "i", "e", "w">>
      [] status = "Offer" -> <<"O", "f", "f", "e", "r">>
      [] status = "Rejected" ->
             <<"R", "e", "j", "e", "c", "t", "e", "d">>
      [] status = "Ghosted" -> <<"G", "h", "o", "s", "t", "e", "d">>

\* str::contains
contains(text, pattern) ==
    \E start \in 0..(Len(text) - Len(pattern)) :
        SubSeq(text, start + 1, start + Len(pattern)) = pattern

\* Option::unwrap_or_default on a text.
unwrap_or_default(option) == IF option = None THEN << >> ELSE option[1]

\* A filter that compares the fields as they are written.
row_filter_keeps_case(job, text) ==
    LET lowered == to_lowercase(text) IN
    \/ lowered = << >>
    \/ contains(job.company, lowered)
    \/ contains(job.role, lowered)
    \/ contains(to_string(job.status), lowered)
    \/ contains(unwrap_or_default(job.role_location), lowered)

\* The closure given to filter: whether the row of a record is shown while
\* the search box holds text.
row_filter(job, text) ==
    LET lowered == to_lowercase(text) IN
    \/ lowered = << >>
    \/ contains(to_lowercase(job.company), lowered)
    \/ contains(to_lowercase(job.role), lowered)
    \/ contains(to_lowercase(to_string(job.status)), lowered)
    \/ contains(to_lowercase(unwrap_or_default(job.role_location)), lowered)

\* self.store.jobs.iter().filter(...)
Rows(js, text) == SelectSeq(js, LAMBDA job : row_filter(job, text))

\* One frame of the table: the search box takes what was typed in the frame
\* (None when nothing was typed), then the rows are filtered by the text of
\* the box.
show_rows(typed) ==
    LET text == IF typed = None THEN search_text ELSE typed[1] IN
    /\ search_text' = text
    /\ frame' = [drawn |-> FALSE, query |-> text, rows |-> Rows(jobs, text)]
    /\ UNCHANGED <<jobs, file, now, calls, retired, call, summary_stats,
                   selected_company, last_refresh, edit_companies>>

\* The texts typed into the search box: nothing, a company in capitals and
\* in small letters, part of a role, a status in mixed case, a location in
\* capitals, a source name, an id, and a text no record has.
Queries ==
    {<< >>,
     <<"A", "C", "M", "E">>, <<"a", "c", "m", "e">>,
     <<"g", "i", "n">>,
     <<"r", "E", "J">>,
     <<"N", "Y", "C">>,
     <<"l", "i", "n", "k", "e", "d", "i", "n">>,
     <<"1">>,
     <<"z">>}

\* A record read from a document written by hand: no location, no source.
BareJob == Job(1, Initech, PM, None, "Ghosted", 0, None)

\* The application after load_from_file, on no document or on a document
\* with one record.
InitFilter ==
    /\ \/ jobs = << >> /\ file = Missing
       \/ jobs = <<BareJob>> /\ file = Doc(<<BareJob>>)
    /\ now = 0
    /\ calls = 0
    /\ retired = {}
    /\ call = NoCall
    /\ summary_stats = SummaryCountsDefault
    /\ search_text = << >>
    /\ selected_company = None
    /\ frame = NoFrame
    /\ last_refresh = now
    /\ edit_companies = << >>

NextFilter ==
    \/ \E in \in AddInputs :
          /\ add_job(in[1], in[2], in[3], in[4])
          /\ call'.outcome = "written"
          /\ now' = now
    \/ \E id \in Ids(jobs) :
          update_status(id, "Rejected") /\ call'.outcome = "written"
    \/ \E typed \in {None} \cup {Some(q) : q \in Queries} : show_rows(typed)

SpecFilter == InitFilter /\ [][NextFilter]_vars

\* pattern is found in text from some place on, letter by letter.
OccursIn(pattern, text) ==
    \E start \in 1..(Len(text) + 1) :
        \A m \in 1..Len(pattern) :
            /\ start + m - 1 <= Len(text)
            /\ text[start + m - 1] = pattern[m]

\* The row of a record is to be shown for a query.
Shown(job, q) ==
    \/ q = << >>
    \/ OccursIn(to_lowercase(q), to_lowercase(job.company))
    \/ OccursIn(to_lowercase(q), to_lowercase(job.role))
    \/ OccursIn(to_lowercase(q), to_lowercase(to_string(job.status)))
    \/ OccursIn(to_lowercase(q),
                to_lowercase(IF job.role_location = None THEN << >>
                             ELSE job.role_location[1]))

\* A frame of the table has been shown since the last store call.
TableShown == "rows" \in DOMAIN frame

\* C13: the rows shown for a query q are the records for which q is empty
\* or the lower-cased q occurs in the lower-cased company, role, status text
\* or location (no location counting as the empty text), in list order; so
\* the empty query shows every record, two queries that differ in letter
\* case only show the same rows, and a query that occurs only in the source,
\* the id or the timestamp of a record does not show it.
C13_RowFilter ==
    TableShown =>
        /\ frame.rows = SelectSeq(jobs, LAMBDA job : Shown(job, frame.query))
        /\ (frame.query = << >> => frame.rows = jobs)
        /\ \A q \in Queries :
              to_lowercase(q) = to_lowercase(frame.query)
              => Rows(jobs, q) = frame.rows
        /\ (frame.query \in {<<"l", "i", "n", "k", "e", "d", "i", "n">>,
                             <<"1">>}
              => frame.rows = << >>)

\* The query in capitals shows the record of that company and hides another
\* record, one without a location.
C13_Witness ==
    /\ TableShown
    /\ frame.query = <<"A", "C", "M", "E">>
    /\ Len(frame.rows) = 1
    /\ Len(jobs) = 2
    /\ jobs[1].role_location = None
    /\ jobs[2].source = Some("LinkedIn")

---------------------------------------------------------------------------
(* Loading the document.                                                  *)

\* JobStore::load_from_file.  A document that cannot be opened and a
\* document of white space only return Ok(()) and assign nothing; a text
\* that is no serialized list returns the error of serde_json; a serialized
\* list is assigned to self.jobs.
load_from_file ==
    /\ calls < MaxCalls
    /\ call.ret # "Panic"
    /\ jobs' = IF file.kind = "doc" THEN file.jobs ELSE jobs
    /\ file' = file
    /\ calls' = calls + 1
    /\ call' = [op |-> "load_from_file", arg |-> << >>, pre |-> jobs,
                prefile |-> file, saved |-> FALSE, outcome |-> "none",
                ret |-> IF file.kind = "partial" THEN "Err" ELSE "Ok",
                returned |-> << >>]
    /\ frame' = NoFrame
    /\ UNCHANGED <<now, retired, summary_stats, search_text,
                   selected_company, last_refresh, edit_companies>>

\* The documents found at the start: none, an empty one, a cut one, one with
\* two records, and one whose record has the largest id.
LoadDocuments ==
    {Missing, EmptyDoc, PartialDoc,
     Doc(<<Job(1, Acme, Engineer, Some(Remote), "Applied", 0,
               Some("LinkedIn")),
           Job(2, Globex, PM, Some(NYC), "Rejected", 0, Some("Referral"))>>),
     Doc(<<Job(IdMax, Initech, PM, None, "Ghosted", 0, None)>>)}

\* JobStore::default() beside a document of an earlier run.
InitLoad ==
    /\ jobs = << >>
    /\ file \in LoadDocuments
    /\ now = 0
    /\ calls = 0
    /\ retired = {}
    /\ call = NoCall
    /\ summary_stats = SummaryCountsDefault
    /\ search_text = << >>
    /\ selected_company = None
    /\ frame = NoFrame
    /\ last_refresh = now
    /\ edit_companies = << >>

NextLoad ==
    \/ load_from_file
    \/ \E in \in AddInputs : add_job(in[1], in[2], in[3], in[4])
    \/ \E index \in IndexInputs : delete_job(index)

SpecLoad == InitLoad /\ [][NextLoad]_vars

\* C19: add_job fails only if the write fails: in every store state, also
\* one whose largest id is the largest value of the id type, the call runs
\* to its end, the record is appended, and its id is greater than every id
\* that was in the list.
C19_AddJobFailsOnlyIfPersistenceFails ==
    call.op = "add_job" =>
        /\ call.ret # "Panic"
        /\ (call.ret = "Err" => Failed(call.outcome))
        /\ Len(jobs) = Len(call.pre) + 1
        /\ \A n \in 1..Len(call.pre) : jobs[Len(jobs)].id > call.pre[n].id

\* C20: load_from_file on a missing or empty document returns Ok and leaves
\* the list empty, whatever the list held before the call.
C20_LoadOfNoDocumentGivesEmptyList ==
    (call.op = "load_from_file" /\ call.prefile.kind \in {"missing", "empty"})
    => /\ call.ret = "Ok"
       /\ jobs = << >>

---------------------------------------------------------------------------
(* The source of a record, as text.  JobSource and from_str above are     *)
(* those of job_source.rs; lib.rs holds a second definition of the enum,  *)
(* of its Display and of its FromStr.                                     *)

\* impl Display for JobSource (job_source.rs)
JobSource_fmt(source) ==
    CASE source = "LinkedIn" -> <<"L", "i", "n", "k", "e", "d", "I", "n">>
      [] source = "Monster" -> <<"M", "o", "n", "s", "t", "e", "r">>
      [] source = "Indeed" -> <<"I", "n", "d", "e", "e", "d">>
      [] source = "Recruiter" -> <<"R", "e", "c", "r", "u", "i", "t", "e", "r">>
      [] source = "NotProvided" -> 
             <<"N", "o", "t", " ", "p", "r", "o", "v", "i", "d", "e", "d">>
      [] source = "Talent" -> 
             <<"T", "a", "l", "e", "n", "t", ".", "c", "o", "m">>
      [] source = "Glassdoor" -> <<"G", "l", "a", "s", "s", "d", "o", "o", "r">>
      [] source = "ZipRecruiter" -> 
             <<"Z", "i", "p", "R", "e", "c", "r", "u", "i", "t", "e", "r">>

\* enum JobSource (lib.rs)
lib_JobSource == {"Recruiter", "LinkedIn", "Monster", "Indeed", "NotProvided"}

\* impl Display for JobSource (lib.rs)
lib_JobSource_fmt(source) ==
    CASE source = "LinkedIn" -> <<"L", "i", "n", "k", "e", "d", "I", "n">>
      [] source = "Monster" -> <<"M", "o", "n", "s", "t", "e", "r">>
      [] source = "Indeed" -> <<"I", "n", "d", "e", "e", "d">>
      [] source = "Recruiter" -> <<"R", "e", "c", "r", "u", "i", "t", "e", "r">>
      [] source = "NotProvided" -> 
             <<"N", "o", "t", " ", "p", "r", "o", "v", "i", "d", "e", "d">>

\* impl FromStr for JobSource (lib.rs): the text is lower-cased, then
\* matched; the first pattern is "linkedIn", with a capital letter.
lib_from_str(text) ==
    LET s == to_lowercase(text) IN
    CASE s = <<"l", "i", "n", "k", "e", "d", "I", "n">> -> "LinkedIn"
      [] s = <<"m", "o", "n", "s", "t", "e", "r">> -> "Monster"
      [] s = <<"i", "n", "d", "e", "e", "d">> -> "Indeed"
      [] s = <<"r", "e", "c", "r", "u", "i", "t", "e", "r">> -> "Recruiter"
      [] OTHER -> "NotProvided"

\* The capital of an ASCII letter; every other character is kept.
UpperChar(c) ==
    CASE c = "a" -> "A" [] c = "b" -> "B" [] c = "c" -> "C" [] c = "d" -> "D"
      [] c = "e" -> "E" [] c = "f" -> "F" [] c = "g" -> "G" [] c = "h" -> "H"
      [] c = "i" -> "I" [] c = "j" -> "J" [] c = "k" -> "K" [] c = "l" -> "L"
      [] c = "m" -> "M" [] c = "n" -> "N" [] c = "o" -> "O" [] c = "p" -> "P"
      [] c = "q" -> "Q" [] c = "r" -> "R" [] c = "s" -> "S" [] c = "t" -> "T"
      [] c = "u" -> "U" [] c = "v" -> "V" [] c = "w" -> "W" [] c = "x" -> "X"
      [] c = "y" -> "Y" [] c = "z" -> "Z"
      [] OTHER -> c

\* A text in every letter case.
Casings(text) ==
    {[i \in 1..Len(text) |->
         IF capital[i] THEN UpperChar(text[i]) ELSE LowerChar(text[i])] :
       capital \in [1..Len(text) -> BOOLEAN]}

\* The texts given as a source: the display text of every variant in every
\* letter case, and texts that are no display text: the empty text, a name
\* with a blank in it, a name cut short, and another word.
SourceTexts ==
    UNION {Casings(JobSource_fmt(source)) : source \in JobSource}
    \cup {<< >>, <<"L", "i", "n", "k", "e", "d", " ", "I", "n">>,
          <<"T", "a", "l", "e", "n", "t">>, ReferralText}

\* A text waits to be parsed.
Input(text) == [op |-> "input", arg |-> <<text>>, pre |-> << >>,
                prefile |-> Missing, saved |-> FALSE, outcome |-> "none",
                ret |-> "Ok", returned |-> << >>]

\* s.parse::<JobSource>() with the FromStr of job_source.rs: Ok(variant).
parse ==
    /\ call.op = "input"
    /\ call' = [call EXCEPT !.op = "from_str",
                            !.returned = <<from_str(call.arg[1])>>]
    /\ UNCHANGED <<jobs, file, now, calls, retired, summary_stats,
                   search_text, selected_company, frame, last_refresh,
                   edit_companies>>

\* s.parse::<JobSource>() with the FromStr of lib.rs: Ok(variant).
lib_parse ==
    /\ call.op = "input"
    /\ call' = [call EXCEPT !.op = "lib_from_str",
                            !.returned = <<lib_from_str(call.arg[1])>>]
    /\ UNCHANGED <<jobs, file, now, calls, retired, summary_stats,
                   search_text, selected_company, frame, last_refresh,
                   edit_companies>>

\* An empty store, and a text to be given as a source.
InitSource ==
    /\ jobs = << >>
    /\ file = Missing
    /\ now = 0
    /\ calls = 0
    /\ retired = {}
    /\ call \in {Input(text) : text \in SourceTexts}
    /\ summary_stats = SummaryCountsDefault
    /\ search_text = << >>
    /\ selected_company = None
    /\ frame = NoFrame
    /\ last_refresh = now
    /\ edit_companies = << >>

NextSource ==
    \/ parse
    \/ lib_parse
    \/ call.op = "input" /\ add_job(Acme, Engineer, Remote, call.arg[1])

SpecSource == InitSource /\ [][NextSource]_vars

\* The lower-cased texts that from_str of job_source.rs knows.
SourceNames ==
    {to_lowercase(JobSource_fmt(source)) : source \in JobSource \ {"NotProvided"}}

\* C21: parsing a source text never fails: the parse of every text is a
\* variant, NotProvided when the text is no source name, and add_job with
\* any source text appends the record and returns an error for a failed
\* write only.
C21_SourceParseNeverFails ==
    /\ call.op = "from_str" =>
          /\ call.ret = "Ok"
          /\ call.returned[1] \in JobSource
          /\ (to_lowercase(call.arg[1]) \notin SourceNames
                => call.returned[1] = "NotProvided")
    /\ call.op = "add_job" =>
          /\ call.ret # "Panic"
          /\ (call.ret = "Err" => Failed(call.outcome))
          /\ Len(jobs) = 1
          /\ Len(jobs[1].source) = 1
          /\ jobs[1].source[1] \in JobSource
          /\ (to_lowercase(call.arg[4]) \notin SourceNames
                => jobs[1].source = Some("NotProvided"))

\* add_job was called with a source text that is no source name.
C21_Witness ==
    /\ call.op = "add_job"
    /\ call.arg[4] = <<"T", "a", "l", "e", "n", "t">>
    /\ call.ret = "Ok"
    /\ jobs[1].source = Some("NotProvided")

\* C29: in both definitions of JobSource the display text of every variant,
\* in any letter case, parses to that variant.
C29_SourceRoundTrip ==
    /\ call.op = "from_str" =>
          \A source \in JobSource :
              to_lowercase(call.arg[1]) = to_lowercase(JobSource_fmt(source))
              => call.returned = <<source>>
    /\ call.op = "lib_from_str" =>
          \A source \in lib_JobSource :
              to_lowercase(call.arg[1])
                  = to_lowercase(lib_JobSource_fmt(source))
              => call.returned = <<source>>

---------------------------------------------------------------------------
(* The views of one list in every order.                                  *)

\* Three records of a document: two of one day and one of an earlier day,
\* with three statuses.
ViewJobs ==
    {Job(1, Acme, Engineer, Some(Remote), "Applied", 4, Some("LinkedIn")),
     Job(2, Globex, PM, Some(NYC), "Rejected", 0, Some("NotProvided")),
     Job(3, Acme, PM, None, "Interview", 5, None)}

\* The lists that hold each record of a set once.
Orders(S) ==
    {js \in [1..Cardinality(S) -> S] : {js[n] : n \in 1..Len(js)} = S}

\* The application after load_from_file, on a document that holds some of
\* the records in some order, two days after instant 0.
InitViews ==
    /\ \E S \in SUBSET ViewJobs : jobs \in Orders(S)
    /\ file = Doc(jobs)
    /\ now = 2 * TicksPerDay
    /\ calls = 0
    /\ retired = {}
    /\ call = NoCall
    /\ summary_stats = SummaryCountsDefault
    /\ search_text = << >>
    /\ selected_company = None
    /\ frame = NoFrame
    /\ last_refresh = now
    /\ edit_companies = << >>

\* The texts typed into the search box here: a company in capitals and a
\* status in mixed case.
ViewQueries == {<<"A", "C", "M", "E">>, <<"r", "E", "J">>}

NextViews ==
    \/ \E id \in Ids(jobs) :
          update_status(id, "Rejected") /\ call'.outcome = "written"
    \/ add_bar_chart_stats(None)
    \/ \E q \in ViewQueries : show_rows(Some(q))

SpecViews == InitViews /\ [][NextViews]_vars

\* The store's list in the order given by a permutation of its places.
Reordered(p) == [n \in 1..Len(jobs) |-> jobs[p[n]]]

\* The records of a list.
Range(js) == {js[n] : n \in 1..Len(js)}

\* C22: the views of a list and of every reordering of it agree: equal
\* counters, the same set of rows for the query, the same day sequence, and
\* in the bucket of every day the same set of records.
C22_ViewsIgnoreListOrder ==
    \A p \in Permutations(1..Len(jobs)) :
        /\ frame.drawn =>
              /\ calculate_summary_stats(Reordered(p)) = summary_stats
              /\ all_dates(Reordered(p), frame.today) = frame.all_dates
              /\ sorted_dates(Reordered(p), frame.today) = frame.sorted_dates
              /\ \A d \in DOMAIN frame.date_to_jobs :
                    Range(date_to_jobs(Reordered(p), frame.today)[d])
                        = Range(frame.date_to_jobs[d])
        /\ TableShown =>
              Range(Rows(Reordered(p), frame.query)) = Range(frame.rows)

\* A chart frame of a list of three records that is not in the order of
\* the days, with two records in one bucket.
C22_Witness ==
    /\ frame.drawn
    /\ Len(jobs) = 3
    /\ jobs[3].timestamp < jobs[1].timestamp
    /\ \E d \in DOMAIN frame.date_to_jobs : Len(frame.date_to_jobs[d]) = 2

---------------------------------------------------------------------------
(* The store of lib.rs, whose list_jobs reads the document, and the        *)
(* Refresh button of jobtracker-gui that calls it.                         *)

\* Job::new (lib.rs)
lib_Job_new(id, company, role, new_role_location, new_source, t) ==
    Job(id, company, role, Some(new_role_location), "Applied", t,
        Some(lib_from_str(new_source)))

\* JobStore::add_job (lib.rs)
lib_add_job(company, role, new_role_location, new_source) ==
    \E t \in {now, now + 1}, outcome \in SaveOutcome,
       overflow_checks \in IF MaxIdOr0(jobs) < IdMax
                           THEN {FALSE} ELSE BOOLEAN :
        IF overflow_checks
        THEN /\ Panicked("add_job",
                         <<company, role, new_role_location, new_source>>)
             /\ UNCHANGED <<now, retired>>
        ELSE /\ now' = t
             /\ Saved("add_job",
                      <<company, role, new_role_location, new_source>>,
                      Append(jobs, lib_Job_new(new_job_id(jobs), company,
                                               role, new_role_location,
                                               new_source, t)),
                      outcome)
             /\ UNCHANGED retired

\* load (lib.rs): Ok(vec![]) when the document cannot be opened or is white
\* space only, the error of serde_json on a text that is no list, and the
\* list otherwise.
load(document) ==
    [ok |-> document.kind # "partial",
     jobs |-> IF document.kind = "doc" THEN document.jobs ELSE << >>]

\* self.jobs = load()?; Ok(self.jobs.clone())
Reloaded ==
    /\ calls < MaxCalls
    /\ call.ret # "Panic"
    /\ jobs' = IF load(file).ok THEN load(file).jobs ELSE jobs
    /\ file' = file
    /\ calls' = calls + 1
    /\ call' = [op |-> "list_jobs", arg |-> << >>, pre |-> jobs,
                prefile |-> file, saved |-> FALSE, outcome |-> "none",
                ret |-> IF load(file).ok THEN "Ok" ELSE "Err",
                returned |-> load(file).jobs]
    /\ UNCHANGED <<retired, summary_stats, search_text, selected_company,
                   edit_companies>>

\* JobStore::list_jobs (lib.rs)
lib_list_jobs ==
    /\ Reloaded
    /\ frame' = NoFrame
    /\ UNCHANGED <<now, last_refresh>>

\* JobApp::add_refresh_button (jobtracker-gui), the button clicked: the
\* result of list_jobs is dropped and last_refresh takes the time of the
\* click, which is later than the time of the last frame.
gui_add_refresh_button ==
    /\ Reloaded
    /\ now' = now + 1
    /\ last_refresh' = now'
    /\ frame' = [drawn |-> FALSE, clicked |-> "Refresh",
                 last_refresh |-> last_refresh]

\* The documents found at the start by jobtracker-gui: none, a cut one, and
\* one with a record.
LibDocuments ==
    {Missing, PartialDoc,
     Doc(<<Job(1, Initech, PM, Some(NYC), "Applied", 0, Some("Indeed"))>>)}

\* JobStore::default() beside a document of an earlier run.
InitLib ==
    /\ jobs = << >>
    /\ file \in LibDocuments
    /\ now = 0
    /\ calls = 0
    /\ retired = {}
    /\ call = NoCall
    /\ summary_stats = SummaryCountsDefault
    /\ search_text = << >>
    /\ selected_company = None
    /\ frame = NoFrame
    /\ last_refresh = now
    /\ edit_companies = << >>

NextLib ==
    \/ lib_list_jobs
    \/ gui_add_refresh_button
    \/ \E in \in AddInputs : lib_add_job(in[1], in[2], in[3], in[4])
    \/ \E index \in IndexInputs : delete_job(index)

SpecLib == InitLib /\ [][NextLib]_vars

\* The Refresh button was clicked in the last step.
RefreshClicked == "clicked" \in DOMAIN frame

\* C23: in the store whose list_jobs reads the document, a list that holds
\* records is the same after list_jobs as before it.  The document is
\* written by this store only, so such a list differs from the document
\* only by changes whose write failed: list_jobs keeps these changes.
C23_ListJobsKeepsUnsavedChanges ==
    (call.op = "list_jobs" /\ call.pre # << >>) => jobs = call.pre

\* C25: a click on Refresh whose list_jobs returned an error leaves
\* last_refresh as it was; last_refresh changes only with a document read
\* and deserialized by the click.
C25_LastRefreshIsLastSuccessfulRead ==
    RefreshClicked =>
        /\ call.ret = "Err" => last_refresh = frame.last_refresh
        /\ last_refresh # frame.last_refresh =>
              (call.ret = "Ok" /\ call.prefile.kind = "doc")

\* C30: the store is loaded before the first mutator runs, so every record
\* that is in the document before add_job is in it after add_job succeeds.
C30_AddJobKeepsDurableRecords ==
    (call.op = "add_job" /\ call.ret = "Ok") =>
        \A n \in 1..Len(call.prefile.jobs) :
            \E m \in 1..Len(file.jobs) : file.jobs[m] = call.prefile.jobs[n]

---------------------------------------------------------------------------
(* The document after a successful call.                                  *)

Mutators == UpdateOps \cup {"add_job", "delete_job"}

\* The document holds the list; no document and an empty one hold the empty
\* list.
DocumentIsList ==
    \/ file = Doc(jobs)
    \/ jobs = << >> /\ file.kind \in {"missing", "empty"}

\* C27 as stated: whenever a mutator returns success the document equals
\* the list, also after earlier calls whose write failed and for calls that
\* changed nothing.
C27_SuccessMeansDurable ==
    (call.op \in Mutators /\ call.ret = "Ok") => DocumentIsList

\* C27, amended: a mutator that changed the list and returns success has
\* written the list, so the document equals the list, also after earlier
\* calls whose write failed; a mutator that found nothing to change returns
\* success without writing and leaves the document as it was, so that the
\* document then equals the list only if it did before the call.
C27_SuccessfulWriteMeansDurable ==
    call.op \in Mutators =>
        /\ (call.saved /\ call.ret = "Ok") => file = Doc(jobs)
        /\ ~call.saved =>
              /\ call.ret = "Ok"
              /\ jobs = call.pre
              /\ file = call.prefile

\* A write succeeds after an earlier write of this run had failed.
C27_Witness ==
    /\ call.op \in Mutators
    /\ call.saved
    /\ call.ret = "Ok"
    /\ call.pre # << >>
    /\ call.prefile # Doc(call.pre)
    /\ file = Doc(jobs)

---------------------------------------------------------------------------
(* The form and the table of JobApp::update (job_app.rs).  A step is one  *)
(* frame with one thing done by the user.  In a frame the chart is drawn   *)
(* first, then the form and the search box are handled, then the rows of   *)
(* the records that pass the filter are drawn, each with a buffer for its  *)
(* company field, and last the store is called for what was clicked.  The  *)
(* result of every store call is unwrapped, so the frames go on only while *)
(* every write has succeeded.                                              *)

\* self.edit_companies.entry(job.id).or_insert_with(|| job.company.clone())
\* for every row drawn: a buffer that exists is kept.
Entered(buffers, rows) ==
    [id \in (DOMAIN buffers) \cup Ids(rows) |->
        IF id \in DOMAIN buffers THEN buffers[id]
        ELSE rows[find(rows, id)].company]

\* A store call of the frame returned Ok: the list is js, and the document
\* holds it if the call wrote.
Unwrapped(op, arg, js, saved) ==
    /\ calls < MaxCalls
    /\ jobs' = js
    /\ file' = IF saved THEN Doc(js) ELSE file
    /\ calls' = calls + 1
    /\ call' = [op |-> op, arg |-> arg, pre |-> jobs, prefile |-> file,
                saved |-> saved,
                outcome |-> IF saved THEN "written" ELSE "none",
                ret |-> "Ok", returned |-> js]

\* self.add_bar_chart_stats(ui) in a frame without a click on the plot.
ChartDrawn ==
    /\ summary_stats' = calculate_summary_stats(jobs)
    /\ selected_company' =
           IF Bars(jobs, now) # {} /\ search_text = << >>
           THEN None ELSE selected_company

\* The Add button is clicked with the four fields of the form filled as
\* given.  add_job is called when none of them is empty.
click_add(new_company, new_role, new_role_location, new_source) ==
    /\ ChartDrawn
    /\ IF /\ new_company # << >>
          /\ new_role # << >>
          /\ new_role_location # << >>
          /\ new_source # << >>
       THEN Unwrapped("add_job",
                      <<new_company, new_role, new_role_location,
                        new_source>>,
                      Append(jobs, NewJob(new_job_id(jobs), new_company,
                                          new_role, new_role_location,
                                          new_source, now)),
                      TRUE)
       ELSE UNCHANGED <<jobs, file, calls, call>>
    /\ edit_companies' = Entered(edit_companies, Rows(jobs', search_text))
    /\ frame' = [drawn |-> FALSE, event |-> "Add"]
    /\ UNCHANGED <<now, retired, search_text, last_refresh>>

\* A text is typed into the search box.
type_search(text) ==
    /\ ChartDrawn
    /\ search_text' = text
    /\ edit_companies' = Entered(edit_companies, Rows(jobs, text))
    /\ frame' = [drawn |-> FALSE, event |-> "Search"]
    /\ UNCHANGED <<jobs, file, now, calls, retired, call, last_refresh>>

\* The company field of the row at place i of the table is given a text;
\* the field keeps the focus.
type_company(i, text) ==
    LET rows == Rows(jobs, search_text) IN
    /\ i < Len(rows)
    /\ ChartDrawn
    /\ edit_companies' =
           [Entered(edit_companies, rows) EXCEPT ![rows[i + 1].id] = text]
    /\ frame' = [drawn |-> FALSE, event |-> "Type"]
    /\ UNCHANGED <<jobs, file, now, calls, retired, call, search_text,
                   last_refresh>>

\* The company field of the row at place i loses the focus, or Enter is
\* pressed in it: update_company is called with the id of the row and the
\* text of the field.
commit_company(i) ==
    LET rows == Rows(jobs, search_text)
        buffers == Entered(edit_companies, rows)
    IN  /\ i < Len(rows)
        /\ ChartDrawn
        /\ LET id == rows[i + 1].id
               new_company == buffers[id]
           IN  /\ Unwrapped("update_company", <<id, new_company>>,
                            IF find(jobs, id) # 0
                            THEN [jobs EXCEPT ![find(jobs, id)] =
                                      SetCompany(@, new_company)]
                            ELSE jobs,
                            find(jobs, id) # 0)
               /\ edit_companies' = [buffers EXCEPT ![id] = new_company]
        /\ frame' = [drawn |-> FALSE, event |-> "Commit",
                     shown |-> rows[i + 1]]
        /\ UNCHANGED <<now, retired, search_text, last_refresh>>

\* The Delete button of the row at place i of the table is clicked:
\* delete_job is called with i, the place of the row among the rows drawn.
click_delete(i) ==
    LET rows == Rows(jobs, search_text) IN
    /\ i < Len(rows)
    /\ ChartDrawn
    /\ Unwrapped("delete_job", <<i>>,
                 IF i < Len(jobs) THEN remove(jobs, i) ELSE jobs,
                 i < Len(jobs))
    /\ retired' = IF i < Len(jobs)
                  THEN retired \cup {jobs[i + 1].id} ELSE retired
    /\ edit_companies' = Entered(edit_companies, rows)
    /\ frame' = [drawn |-> FALSE, event |-> "Delete", shown |-> rows[i + 1]]
    /\ UNCHANGED <<now, search_text, last_refresh>>

\* A status is chosen in the row at place i.
select_status(i, status) ==
    LET rows == Rows(jobs, search_text) IN
    /\ i < Len(rows)
    /\ ChartDrawn
    /\ Unwrapped("update_status", <<rows[i + 1].id, status>>,
                 [jobs EXCEPT ![find(jobs, rows[i + 1].id)] =
                     SetStatus(@, status)],
                 TRUE)
    /\ edit_companies' = Entered(edit_companies, rows)
    /\ frame' = [drawn |-> FALSE, event |-> "Status"]
    /\ UNCHANGED <<now, retired, search_text, last_refresh>>

\* What is in the form when Add is clicked: the two forms filled in full,
\* and a form with no company.
FormInputs ==
    AddInputs \cup {<<(<< >>), Engineer, Remote, LinkedInText>>}

\* The places of the rows drawn.
RowInputs == 0..(Len(Rows(jobs, search_text)) - 1)

\* The application after load_from_file, on no document or on a document
\* with one record.
InitTable ==
    /\ \/ jobs = << >> /\ file = Missing
       \/ jobs = <<BareJob>> /\ file = Doc(<<BareJob>>)
    /\ now = 0
    /\ calls = 0
    /\ retired = {}
    /\ call = NoCall
    /\ summary_stats = SummaryCountsDefault
    /\ search_text = << >>
    /\ selected_company = None
    /\ frame = NoFrame
    /\ last_refresh = now
    /\ edit_companies = << >>

NextTable ==
    \/ \E in \in FormInputs : click_add(in[1], in[2], in[3], in[4])
    \/ \E text \in {<< >>, <<"g", "l", "o", "b">>} : type_search(text)
    \/ \E i \in RowInputs, text \in {<< >>, Initech} : type_company(i, text)
    \/ \E i \in RowInputs : commit_company(i)
    \/ \E i \in RowInputs : click_delete(i)
    \/ \E i \in RowInputs : select_status(i, "Rejected")

SpecTable == InitTable /\ [][NextTable]_vars

\* The same application used without typing into a company field.
NextBuffers ==
    \/ \E in \in AddInputs : click_add(in[1], in[2], in[3], in[4])
    \/ \E i \in RowInputs : commit_company(i)
    \/ \E i \in RowInputs : click_delete(i)

SpecBuffers == InitTable /\ [][NextBuffers]_vars

\* C24: after the actions of the form and of the table, every record of the
\* store has a company and a role that are not empty.
C24_CompanyAndRoleNeverEmpty ==
    \A n \in 1..Len(jobs) :
        jobs[n].company # << >> /\ jobs[n].role # << >>

\* C26: a click on Delete in a row removes the record drawn in that row and
\* no other record, whatever the search text.
C26_DeleteRemovesRowShown ==
    ("event" \in DOMAIN frame /\ frame.event = "Delete") =>
        jobs = SelectSeq(call.pre, LAMBDA job : job # frame.shown)

\* C28: the buffer of the company field of a row comes from the record of
\* that row: when no company field was typed into, a commit of the field
\* leaves the list as it was, so a record never gets the company of an
\* earlier, deleted record.
C28_UntypedCommitChangesNothing ==
    ("event" \in DOMAIN frame /\ frame.event = "Commit") => jobs = call.pre

====
